---------------------------- MODULE Spec2Model ----------------------------
(***************************************************************************)
(* Train query engine (src/main.go): FindTrains validates two station      *)
(* texts and a sort criterion, loads the dataset from data.json, keeps the *)
(* records matching both stations, sorts them stably by the criterion and  *)
(* returns at most numOfReturnTrains of them.                              *)
(*                                                                         *)
(* Texts that the code inspects byte by byte (station texts, the JSON      *)
(* tokens of the time fields) are sequences of one-character strings.      *)
(* A time.Time is the number of seconds since 0001-01-01 00:00:00 UTC, the *)
(* zero value of time.Time; time.Parse with the layout "15:04:05" yields   *)
(* an instant on 1 January of year 0, which is negative on that scale.     *)
(* Prices are whole numbers, which float32 holds exactly.                  *)
(***************************************************************************)
EXTENDS Integers, Sequences, FiniteSets

(***************************************************************************)
(* Bounds of the model.                                                    *)
(***************************************************************************)
\* Longest dataset (records in data.json) of the one-source specification.
MaxRecords == 4
\* Longest dataset of the specification in which the source is rewritten
\* between calls.
MaxReloadRecords == 1

(***************************************************************************)
(* Program constants, src/main.go:16-38.                                   *)
(***************************************************************************)
priceCriteria == "price"
arrivalTimeCriteria == "arrival-time"
departureTimeCriteria == "departure-time"
numOfReturnTrains == 3
minIDNumber == 1
minLen == 1

NoError == "nil"
errCriteria == "unsupported criteria"
errEmptyDepStation == "empty departure station"
errEmptyArrStation == "empty arrival station"
errBadDepStation == "bad departure station input"
errBadArrStation == "bad arrival station input"
criteriaOfSort == {"price", "arrival-time", "departure-time"}

(***************************************************************************)
(* Characters and strconv.Atoi.                                            *)
(***************************************************************************)
DigitChars == <<"0", "1", "2", "3", "4", "5", "6", "7", "8", "9">>

IsDigit(c) == \E i \in 1..Len(DigitChars) : DigitChars[i] = c

DigitVal(c) == (CHOOSE i \in 1..Len(DigitChars) : DigitChars[i] = c) - 1

\* The loop "n = n*10 + int(ch)" of strconv.Atoi's fast path over digits d,
\* started from n.
RECURSIVE AtoiDigits(_, _)
AtoiDigits(d, n) ==
    IF d = <<>> THEN n ELSE AtoiDigits(Tail(d), n * 10 + DigitVal(Head(d)))

\* Atoi with the sign dropped instead of applied.
AtoiIgnoresSign(s) ==
    IF Len(s) = 0 THEN [err |-> TRUE, n |-> 0]
    ELSE LET signed == s[1] = "-" \/ s[1] = "+"
             d == IF signed THEN Tail(s) ELSE s
         IN IF Len(d) < 1 \/ \E i \in 1..Len(d) : ~IsDigit(d[i])
            THEN [err |-> TRUE, n |-> 0]
            ELSE [err |-> FALSE, n |-> AtoiDigits(d, 0)]

\* strconv.Atoi for texts shorter than 19 bytes: an optional sign, then one
\* or more decimal digits; anything else is a syntax error with value 0.
Atoi(s) ==
    IF Len(s) = 0 THEN [err |-> TRUE, n |-> 0]
    ELSE LET signed == s[1] = "-" \/ s[1] = "+"
             d == IF signed THEN Tail(s) ELSE s
         IN IF Len(d) < 1 \/ \E i \in 1..Len(d) : ~IsDigit(d[i])
            THEN [err |-> TRUE, n |-> 0]
            ELSE [err |-> FALSE,
                  n |-> IF s[1] = "-" THEN 0 - AtoiDigits(d, 0)
                        ELSE AtoiDigits(d, 0)]

(***************************************************************************)
(* time.Time, time.Parse(layout, s) with layout "15:04:05", and            *)
(* CustomTime.UnmarshalJSON.                                               *)
(***************************************************************************)
\* The zero value of time.Time: 0001-01-01 00:00:00 UTC.
ZeroTime == 0

\* Year 0 is a leap year: 1 January of year 0 lies 366 days before ZeroTime.
YearZeroStart == 0 - 366 * 86400

\* ClockTime with the clock placed on 1 January of year 1, the day of the
\* zero value, instead of year 0.
ClockTimeYearOne(h, m, s) == h * 3600 + m * 60 + s

\* time.Date(0, time.January, 1, h, m, s, 0, time.UTC).
ClockTime(h, m, s) == YearZeroStart + h * 3600 + m * 60 + s

\* time.Time.Before.
Before(t, u) == t < u

\* time's getnum: one or two leading digits; with fixed, exactly two.
getnum(s, fixed) ==
    IF Len(s) < 1 \/ ~IsDigit(s[1])
    THEN [err |-> TRUE, n |-> 0, rest |-> s]
    ELSE IF Len(s) < 2 \/ ~IsDigit(s[2])
    THEN IF fixed THEN [err |-> TRUE, n |-> 0, rest |-> s]
         ELSE [err |-> FALSE, n |-> DigitVal(s[1]), rest |-> Tail(s)]
    ELSE [err |-> FALSE, n |-> DigitVal(s[1]) * 10 + DigitVal(s[2]),
          rest |-> SubSeq(s, 3, Len(s))]

\* The literal ":" of the layout.
SkipColon(s) ==
    IF Len(s) >= 1 /\ s[1] = ":" THEN [err |-> FALSE, rest |-> Tail(s)]
    ELSE [err |-> TRUE, rest |-> s]

ParseError == [err |-> TRUE, t |-> ZeroTime]

\* time.Parse("15:04:05", s): hour (1 or 2 digits, below 24), ":", minute
\* (2 digits, below 60), ":", second (2 digits, below 60), and no text
\* left.  Texts with a fractional second are outside the modelled inputs.
TimeParse(s) ==
    LET h == getnum(s, FALSE)
        c1 == SkipColon(h.rest)
        m == getnum(c1.rest, TRUE)
        c2 == SkipColon(m.rest)
        sec == getnum(c2.rest, TRUE)
    IN IF h.err \/ h.n >= 24 THEN ParseError
       ELSE IF c1.err THEN ParseError
       ELSE IF m.err \/ m.n >= 60 THEN ParseError
       ELSE IF c2.err THEN ParseError
       ELSE IF sec.err \/ sec.n >= 60 THEN ParseError
       ELSE IF Len(sec.rest) > 0 THEN ParseError
       ELSE [err |-> FALSE, t |-> ClockTime(h.n, m.n, sec.n)]

\* The cutset `\"` of strings.Trim in CustomTime.UnmarshalJSON.
TrimCutset == {"\\", "\""}

RECURSIVE TrimLeft(_)
TrimLeft(s) ==
    IF s # <<>> /\ Head(s) \in TrimCutset THEN TrimLeft(Tail(s)) ELSE s

RECURSIVE TrimRight(_)
TrimRight(s) ==
    IF s # <<>> /\ s[Len(s)] \in TrimCutset
    THEN TrimRight(SubSeq(s, 1, Len(s) - 1)) ELSE s

\* strings.Trim(string(b), `\"`).
Trim(s) == TrimRight(TrimLeft(s))

NullText == <<"n", "u", "l", "l">>

\* CustomTime.UnmarshalJSON(b) on a CustomTime that holds the zero value:
\* the error flag and the value held afterwards.  b = <<>> stands for a
\* record without the key, for which encoding/json makes no call at all.
CustomTimeUnmarshalJSON(b) ==
    LET s == Trim(b)
    IN IF s = NullText \/ s = <<>> THEN [err |-> FALSE, t |-> ZeroTime]
       ELSE TimeParse(s)

(***************************************************************************)
(* Train and Train.UnmarshalJSON.                                          *)
(***************************************************************************)
\* The zero value of Train.
ZeroTrain ==
    [TrainID |-> 0, DepartureStationID |-> 0, ArrivalStationID |-> 0,
     Price |-> 0, ArrivalTime |-> ZeroTime, DepartureTime |-> ZeroTime]

\* Train.UnmarshalJSON on a zero Train, for a JSON object r with the keys
\* of the alias struct: on an error of a time field the Train is left
\* untouched, otherwise every field is copied from the alias.
TrainUnmarshalJSON(r) ==
    LET a == CustomTimeUnmarshalJSON(r.arrivalTime)
        d == CustomTimeUnmarshalJSON(r.departureTime)
    IN IF a.err \/ d.err THEN [err |-> TRUE, train |-> ZeroTrain]
       ELSE [err |-> FALSE,
             train |-> [TrainID |-> r.trainId,
                        DepartureStationID |-> r.departureStationId,
                        ArrivalStationID |-> r.arrivalStationId,
                        Price |-> r.price,
                        ArrivalTime |-> a.t,
                        DepartureTime |-> d.t]]

\* json.Unmarshal(byteValue, &d) for a well-formed JSON array of objects,
\* d being an empty slice: elements are decoded in order; the slice is
\* extended by a zero element before each element is decoded, and the first
\* element whose UnmarshalJSON fails ends the decoding, leaving that zero
\* element in place.
RECURSIVE UnmarshalArray(_)
UnmarshalArray(records) ==
    IF records = <<>> THEN <<>>
    ELSE LET u == TrainUnmarshalJSON(Head(records))
         IN IF u.err THEN <<ZeroTrain>>
            ELSE <<u.train>> \o UnmarshalArray(Tail(records))

\* readDataFromJSON(dataPath).  A source that cannot be opened gives no
\* bytes (the errors of os.Open and ioutil.ReadAll are dropped), and
\* json.Unmarshal leaves d as made, empty, both for no bytes and for bytes
\* that are not well-formed JSON; its error is dropped as well.
readDataFromJSON(src) ==
    IF src.kind = "ok" THEN UnmarshalArray(src.records) ELSE <<>>

(***************************************************************************)
(* sortTrainsByAscending and FindTrains.                                   *)
(***************************************************************************)
\* Less with "not after" in place of "before": equal keys count as less.
LessOrEqual(a, b, criteria) ==
    IF criteria = priceCriteria THEN a.Price <= b.Price
    ELSE IF criteria = departureTimeCriteria
    THEN ~Before(b.DepartureTime, a.DepartureTime)
    ELSE IF criteria = arrivalTimeCriteria
    THEN ~Before(b.ArrivalTime, a.ArrivalTime)
    ELSE FALSE

\* The less function handed to sort.SliceStable for each criterion.
Less(a, b, criteria) ==
    IF criteria = priceCriteria THEN a.Price < b.Price
    ELSE IF criteria = departureTimeCriteria
    THEN Before(a.DepartureTime, b.DepartureTime)
    ELSE IF criteria = arrivalTimeCriteria
    THEN Before(a.ArrivalTime, b.ArrivalTime)
    ELSE FALSE

\* The inner loop of sort's insertion sort: element j moves left while it is
\* less than its left neighbour.
RECURSIVE SiftLeft(_, _, _)
SiftLeft(t, j, criteria) ==
    IF j > 1 /\ Less(t[j], t[j - 1], criteria)
    THEN SiftLeft([t EXCEPT ![j] = t[j - 1], ![j - 1] = t[j]], j - 1, criteria)
    ELSE t

\* The outer loop of the insertion sort, from element i on.
RECURSIVE InsertionSort(_, _, _)
InsertionSort(t, i, criteria) ==
    IF i > Len(t) THEN t
    ELSE InsertionSort(SiftLeft(t, i, criteria), i + 1, criteria)

\* sortTrainsByAscending(trains, criteria): sort.SliceStable, which for
\* slices of at most 20 elements is one insertion sort.
sortTrainsByAscending(trains, criteria) ==
    IF criteria \in {priceCriteria, departureTimeCriteria, arrivalTimeCriteria}
    THEN InsertionSort(trains, 2, criteria)
    ELSE trains

\* Validate with the parse of the departure text moved before the check
\* that the arrival text is not empty.
ValidateBadDepFirst(departureStation, arrivalStation, criteria) ==
    IF Len(departureStation) < minLen THEN errEmptyDepStation
    ELSE IF Atoi(departureStation).err
            \/ Atoi(departureStation).n < minIDNumber THEN errBadDepStation
    ELSE IF Len(arrivalStation) < minLen THEN errEmptyArrStation
    ELSE IF Atoi(arrivalStation).err
            \/ Atoi(arrivalStation).n < minIDNumber THEN errBadArrStation
    ELSE IF criteria \notin criteriaOfSort THEN errCriteria
    ELSE NoError

\* FindTrains, the five checks before the dataset is read: the error
\* returned, or NoError.
Validate(departureStation, arrivalStation, criteria) ==
    IF Len(departureStation) < minLen THEN errEmptyDepStation
    ELSE IF Len(arrivalStation) < minLen THEN errEmptyArrStation
    ELSE IF Atoi(departureStation).err
            \/ Atoi(departureStation).n < minIDNumber THEN errBadDepStation
    ELSE IF Atoi(arrivalStation).err
            \/ Atoi(arrivalStation).n < minIDNumber THEN errBadArrStation
    ELSE IF criteria \notin criteriaOfSort THEN errCriteria
    ELSE NoError

\* Matches with || in place of &&.
MatchesEither(v, departureStationID, arrivalStationID) ==
    \/ v.DepartureStationID = departureStationID
    \/ v.ArrivalStationID = arrivalStationID

\* The condition of the filter loop of FindTrains.
Matches(v, departureStationID, arrivalStationID) ==
    /\ v.DepartureStationID = departureStationID
    /\ v.ArrivalStationID = arrivalStationID

\* The filter loop of FindTrains: the matching records of data, in order.
RECURSIVE FilterTrains(_, _, _)
FilterTrains(d, departureStationID, arrivalStationID) ==
    IF d = <<>> THEN <<>>
    ELSE (IF Matches(Head(d), departureStationID, arrivalStationID)
          THEN <<Head(d)>> ELSE <<>>)
         \o FilterTrains(Tail(d), departureStationID, arrivalStationID)

\* Truncate that is off by one: it keeps numOfReturnTrains + 1 records.
TruncateKeepsOneMore(t) ==
    IF Len(t) <= numOfReturnTrains THEN t
    ELSE SubSeq(t, 1, numOfReturnTrains + 1)

\* The last four lines of FindTrains: the slice returned.
Truncate(t) ==
    IF Len(t) < numOfReturnTrains THEN t ELSE SubSeq(t, 1, numOfReturnTrains)

\* A returned Trains value: the nil slice, or a slice with its elements.
NilTrains == [isNil |-> TRUE, trains |-> <<>>]

SomeTrains(t) == [isNil |-> FALSE, trains |-> t]

(***************************************************************************)
(* Inputs of the model.                                                    *)
(***************************************************************************)
Quoted(s) == <<"\"">> \o s \o <<"\"">>

\* JSON tokens of a time field: two clock times, null, the empty string,
\* no key at all, and a text that time.Parse rejects.
Clock0415 == Quoted(<<"0", "4", ":", "1", "5", ":", "0", "0">>)
Clock0555 == Quoted(<<"0", "5", ":", "5", "5", ":", "0", "0">>)
Clock1303 == Quoted(<<"1", "3", ":", "0", "3", ":", "0", "0">>)
EmptyText == Quoted(<<>>)
AbsentText == <<>>
BadClock == Quoted(<<"2", "5", ":", "0", "0", ":", "0", "0">>)

RawTrain(id, dep, arr, price, arrT, depT) ==
    [trainId |-> id, departureStationId |-> dep, arrivalStationId |-> arr,
     price |-> price, arrivalTime |-> arrT, departureTime |-> depT]

\* The JSON objects a dataset is made of: three trains from station 1 to
\* station 1 (two of one price; one, two and no parsed time among their
\* arrival and departure times), one train from station 1 to station 2, and
\* one object whose arrival time does not parse.
RawTrains ==
    { RawTrain(11, 1, 1, 10, Clock0415, NullText),
      RawTrain(12, 1, 1, 20, EmptyText, Clock1303),
      RawTrain(13, 1, 1, 10, AbsentText, Clock0555),
      RawTrain(15, 1, 2, 10, Clock0415, Clock1303),
      RawTrain(16, 1, 1, 10, BadClock, Clock1303) }

SeqsUpTo(S, n) == UNION { [1..k -> S] : k \in 0..n }

\* The dataset source: a file that cannot be opened, a file that is not
\* well-formed JSON, or a JSON array of objects.
SourcesUpTo(n) ==
    { [kind |-> "missing", records |-> <<>>],
      [kind |-> "malformed", records |-> <<>>] }
    \cup { [kind |-> "ok", records |-> r] : r \in SeqsUpTo(RawTrains, n) }

\* Station texts: empty, not a number, zero, negative, and two that parse
\* to a station (1 and 2).
StationTexts ==
    { <<>>, <<"x">>, <<"0">>, <<"-", "1">>, <<"1">>, <<"+", "2">> }

\* Criterion texts: the three supported ones and one that is not.
CriteriaTexts ==
    { priceCriteria, arrivalTimeCriteria, departureTimeCriteria, "awef" }

(***************************************************************************)
(* State.                                                                  *)
(***************************************************************************)
VARIABLES
    source,            \* content of data.json
    pc,                \* position of the caller / of FindTrains
    departureStation,  \* arguments of the current call
    arrivalStation,
    criteria,
    data,              \* local of FindTrains: the dataset last loaded
    trains,            \* local of FindTrains: the matches
    result,            \* returned Trains
    err,               \* returned error
    reads              \* reads of the source made by the current call

vars == <<source, pc, departureStation, arrivalStation, criteria,
          data, trains, result, err, reads>>

InitWith(sources) ==
    /\ source \in sources
    /\ pc = "idle"
    /\ departureStation = <<>>
    /\ arrivalStation = <<>>
    /\ criteria = ""
    /\ data = <<>>
    /\ trains = <<>>
    /\ result = NilTrains
    /\ err = NoError
    /\ reads = 0

Init == InitWith(SourcesUpTo(MaxRecords))

\* FindTrains(dep, arr, crit), from entry to the end of the five checks:
\* a failing check returns (nil, error); otherwise the call goes on to read
\* the dataset.
Call(dep, arr, crit) ==
    /\ pc = "idle"
    /\ departureStation' = dep
    /\ arrivalStation' = arr
    /\ criteria' = crit
    /\ trains' = <<>>
    /\ result' = NilTrains
    /\ reads' = 0
    /\ err' = Validate(dep, arr, crit)
    /\ pc' = IF Validate(dep, arr, crit) = NoError THEN "load" ELSE "done"
    /\ UNCHANGED <<source, data>>

\* Load that reads data.json only when no dataset is at hand from an
\* earlier call.
LoadCached ==
    /\ pc = "load"
    /\ data' = IF data # <<>> THEN data ELSE readDataFromJSON(source)
    /\ reads' = IF data # <<>> THEN reads ELSE reads + 1
    /\ pc' = "filter"
    /\ UNCHANGED <<source, departureStation, arrivalStation, criteria,
                   trains, result, err>>

\* data := readDataFromJSON(dataPath)
Load ==
    /\ pc = "load"
    /\ data' = readDataFromJSON(source)
    /\ reads' = reads + 1
    /\ pc' = "filter"
    /\ UNCHANGED <<source, departureStation, arrivalStation, criteria,
                   trains, result, err>>

\* Filter without the check for an empty match list: the empty slice goes
\* on to be sorted and returned.
FilterWithoutEmptyCheck ==
    /\ pc = "filter"
    /\ trains' = FilterTrains(data, Atoi(departureStation).n,
                              Atoi(arrivalStation).n)
    /\ pc' = "sort"
    /\ UNCHANGED <<source, departureStation, arrivalStation, criteria,
                   data, reads, result, err>>

\* The filter loop and the return of (nil, nil) when nothing matches.
Filter ==
    /\ pc = "filter"
    /\ trains' = FilterTrains(data, Atoi(departureStation).n,
                              Atoi(arrivalStation).n)
    /\ IF Len(trains') < minLen
       THEN /\ result' = NilTrains
            /\ err' = NoError
            /\ pc' = "done"
       ELSE /\ pc' = "sort"
            /\ UNCHANGED <<result, err>>
    /\ UNCHANGED <<source, departureStation, arrivalStation, criteria,
                   data, reads>>

\* SortAndReturn with the truncation done before the sort.
SortAfterTruncate ==
    /\ pc = "sort"
    /\ trains' = sortTrainsByAscending(Truncate(trains), criteria)
    /\ result' = SomeTrains(trains')
    /\ err' = NoError
    /\ pc' = "done"
    /\ UNCHANGED <<source, departureStation, arrivalStation, criteria,
                   data, reads>>

\* sortTrainsByAscending(trains, criteria) and the return of the first
\* numOfReturnTrains records.
SortAndReturn ==
    /\ pc = "sort"
    /\ trains' = sortTrainsByAscending(trains, criteria)
    /\ result' = SomeTrains(Truncate(trains'))
    /\ err' = NoError
    /\ pc' = "done"
    /\ UNCHANGED <<source, departureStation, arrivalStation, criteria,
                   data, reads>>

FindTrains ==
    \E dep \in StationTexts, arr \in StationTexts, crit \in CriteriaTexts :
        Call(dep, arr, crit)

Next == FindTrains \/ Load \/ Filter \/ SortAndReturn

\* One call of FindTrains, for every content of data.json.
Spec == Init /\ [][Next]_vars

\* The caller has taken (result, err) and is ready for its next call.  The
\* frame of the call is gone; data keeps the dataset of the last load, which
\* the next load overwrites, so that a reuse across calls would show.
Return ==
    /\ pc = "done"
    /\ pc' = "idle"
    /\ departureStation' = <<>>
    /\ arrivalStation' = <<>>
    /\ criteria' = ""
    /\ trains' = <<>>
    /\ result' = NilTrains
    /\ err' = NoError
    /\ reads' = 0
    /\ UNCHANGED <<source, data>>

\* Between two calls the content of data.json is replaced.
ChangeSource ==
    /\ pc = "idle"
    /\ source' \in SourcesUpTo(MaxReloadRecords) \ {source}
    /\ UNCHANGED <<pc, departureStation, arrivalStation, criteria,
                   data, trains, result, err, reads>>

InitReload == InitWith(SourcesUpTo(MaxReloadRecords))

NextReload == Next \/ Return \/ ChangeSource

\* A sequence of calls of FindTrains with data.json rewritten in between.
SpecReload == InitReload /\ [][NextReload]_vars

\* FindTrains as one function of the source content and the arguments:
\* the pair returned.
FindTrainsResult(src, dep, arr, crit) ==
    IF Validate(dep, arr, crit) # NoError
    THEN <<NilTrains, Validate(dep, arr, crit)>>
    ELSE LET t == FilterTrains(readDataFromJSON(src), Atoi(dep).n, Atoi(arr).n)
         IN IF Len(t) < minLen THEN <<NilTrains, NoError>>
            ELSE <<SomeTrains(Truncate(sortTrainsByAscending(t, crit))),
                   NoError>>

(***************************************************************************)
(* Vocabulary of the properties, stated without the operators above.       *)
(***************************************************************************)
\* The criteria the specification recognises.
SupportedCriteria == {"price", "arrival-time", "departure-time"}

\* s is the decimal numeral, with or without a plus sign, of an integer >= 1
\* (numerals of one digit cover the station texts of the model).
IsStationText(s) ==
    \E n \in 1..9 : s = <<DigitChars[n + 1]>> \/ s = <<"+", DigitChars[n + 1]>>

\* The station a station text names.
StationNumber(s) ==
    CHOOSE n \in 1..9 : s = <<DigitChars[n + 1]>> \/ s = <<"+", DigitChars[n + 1]>>

\* The call has returned.
Returned == pc = "done"

\* The arguments of the call pass all five checks.
ValidArgs ==
    /\ IsStationText(departureStation)
    /\ IsStationText(arrivalStation)
    /\ criteria \in SupportedCriteria

\* The call has returned a result without error for valid arguments.
ReturnedOK == Returned /\ ValidArgs /\ err = NoError

\* Positions of the dataset records that match both stations of the query.
MatchIdx ==
    { i \in DOMAIN data :
        /\ data[i].DepartureStationID = StationNumber(departureStation)
        /\ data[i].ArrivalStationID = StationNumber(arrivalStation) }

\* The sort key the criterion selects.
Key(r) ==
    IF criteria = "price" THEN r.Price
    ELSE IF criteria = "departure-time" THEN r.DepartureTime
    ELSE r.ArrivalTime

\* How often record r occurs in sequence q.
Count(q, r) == Cardinality({ k \in DOMAIN q : q[k] = r })

\* JSON time tokens that carry no time: null, the empty string, no key.
NoTimeTexts == { NullText, EmptyText, AbsentText }

\* A JSON object one of whose time fields does not parse.
Undecodable(r) == r.arrivalTime = BadClock \/ r.departureTime = BadClock

\* Position of the first undecodable object of the source, or one past the
\* end.
FirstBad ==
    IF \E i \in DOMAIN source.records : Undecodable(source.records[i])
    THEN CHOOSE i \in DOMAIN source.records :
            /\ Undecodable(source.records[i])
            /\ \A j \in 1..(i - 1) : ~Undecodable(source.records[j])
    ELSE Len(source.records) + 1

\* The load of the source fails: it cannot be opened or read, is not
\* well-formed JSON, or holds an object that cannot be deserialized.
LoadFails == source.kind # "ok" \/ FirstBad <= Len(source.records)

(***************************************************************************)
(* Properties.                                                             *)
(***************************************************************************)
\* C1: the five checks run in the order empty departure, empty arrival, bad
\* departure, bad arrival, unsupported criterion, and a call that fails any
\* of them returns a nil result with the error of the first failing check;
\* a call that fails none returns no error.
C1_FirstFailingCheckWins ==
    Returned =>
        IF departureStation = <<>>
        THEN result = NilTrains /\ err = errEmptyDepStation
        ELSE IF arrivalStation = <<>>
        THEN result = NilTrains /\ err = errEmptyArrStation
        ELSE IF ~IsStationText(departureStation)
        THEN result = NilTrains /\ err = errBadDepStation
        ELSE IF ~IsStationText(arrivalStation)
        THEN result = NilTrains /\ err = errBadArrStation
        ELSE IF criteria \notin SupportedCriteria
        THEN result = NilTrains /\ err = errCriteria
        ELSE err = NoError

\* A call with an unparseable departure text, an empty arrival text and an
\* unrecognised criterion has returned the empty-arrival error.
C1_Witness ==
    /\ Returned
    /\ departureStation = <<"x">>
    /\ arrivalStation = <<>>
    /\ criteria = "awef"
    /\ err = errEmptyArrStation

\* C2: with both station texts non-empty, a departure text that is no
\* integer >= 1 gives (nil, BadDepartureStation); otherwise an arrival text
\* that is no integer >= 1 gives (nil, BadArrivalStation); a text that is an
\* integer >= 1 never gives the Bad*Station error of its side.
C2_BadStation ==
    (Returned /\ departureStation # <<>> /\ arrivalStation # <<>>) =>
        /\ ~IsStationText(departureStation)
             => (result = NilTrains /\ err = errBadDepStation)
        /\ (IsStationText(departureStation) /\ ~IsStationText(arrivalStation))
             => (result = NilTrains /\ err = errBadArrStation)
        /\ IsStationText(departureStation) => err # errBadDepStation
        /\ IsStationText(arrivalStation) => err # errBadArrStation

\* A call with a negative departure station and a valid arrival station has
\* returned the bad-departure error.
C2_Witness ==
    /\ Returned
    /\ departureStation = <<"-", "1">>
    /\ arrivalStation = <<"1">>
    /\ result = NilTrains
    /\ err = errBadDepStation

\* C3: a valid call for which no dataset record matches both stations
\* returns (nil, nil), and a call that returns an error returns a nil
\* result.
C3_NoMatchIsNilNil ==
    /\ (Returned /\ ValidArgs /\ MatchIdx = {})
         => (result = NilTrains /\ err = NoError)
    /\ (Returned /\ err # NoError) => result = NilTrains

\* A valid call over a non-empty dataset without a match has returned.
C3_Witness ==
    /\ Returned
    /\ ValidArgs
    /\ data # <<>>
    /\ \E i \in DOMAIN data :
          data[i].DepartureStationID = StationNumber(departureStation)
    /\ MatchIdx = {}
    /\ result = NilTrains
    /\ err = NoError

\* C4: a valid call returns exactly min(3, m) records, m being the number
\* of dataset records that match both stations, duplicates counted.
C4_ResultLength ==
    ReturnedOK =>
        Len(result.trains) =
            IF Cardinality(MatchIdx) < 3 THEN Cardinality(MatchIdx) ELSE 3

\* A valid call with more than three matches has returned three records.
C4_Witness ==
    /\ ReturnedOK
    /\ Cardinality(MatchIdx) > 3
    /\ Len(result.trains) = 3

\* C5: every record a valid call returns is a dataset record that matches
\* the departure station and the arrival station, and occurs in the result
\* no more often than in the dataset.
C5_OnlyMatchingRecords ==
    ReturnedOK =>
        \A k \in DOMAIN result.trains :
            /\ result.trains[k].DepartureStationID
                 = StationNumber(departureStation)
            /\ result.trains[k].ArrivalStationID
                 = StationNumber(arrivalStation)
            /\ Count(data, result.trains[k]) >= 1
            /\ Count(result.trains, result.trains[k])
                 <= Count(data, result.trains[k])

\* A valid call has returned records, one of them twice, from a dataset
\* that also holds a record matching the departure station only.
C5_Witness ==
    /\ ReturnedOK
    /\ \E k, l \in DOMAIN result.trains :
          k # l /\ result.trains[k] = result.trains[l]
    /\ \E i \in DOMAIN data :
          /\ data[i].DepartureStationID = StationNumber(departureStation)
          /\ data[i].ArrivalStationID # StationNumber(arrivalStation)

\* C6: the records a valid call returns are in non-decreasing order of the
\* key of the criterion, and every matching record that is not returned has
\* a key no smaller than the key of every returned record.
C6_SortedSmallestFirst ==
    (ReturnedOK /\ ~result.isNil) =>
        /\ \A k \in 1..(Len(result.trains) - 1) :
              Key(result.trains[k]) <= Key(result.trains[k + 1])
        /\ \A i \in MatchIdx :
              Count(result.trains, data[i])
                  < Cardinality({ j \in MatchIdx : data[j] = data[i] })
              => \A k \in DOMAIN result.trains :
                    Key(result.trains[k]) <= Key(data[i])

\* A valid call has returned three records of rising key although the
\* dataset starts with a match of a larger key, which is not returned.
C6_Witness ==
    /\ ReturnedOK
    /\ Len(result.trains) = 3
    /\ Key(result.trains[1]) < Key(result.trains[3])
    /\ 1 \in MatchIdx
    /\ Key(data[1]) > Key(result.trains[3])
    /\ Count(result.trains, data[1]) = 0

\* C7: the sort is stable, across the truncation too: the returned records
\* can be assigned to distinct matching positions of the dataset such that,
\* of two matches with equal keys, the later is returned only if the earlier
\* is, and then after it.
C7_StableAcrossTruncation ==
    (ReturnedOK /\ ~result.isNil) =>
        \E f \in [1..Len(result.trains) -> MatchIdx] :
            /\ \A k \in DOMAIN result.trains : data[f[k]] = result.trains[k]
            /\ \A k, l \in DOMAIN result.trains : k # l => f[k] # f[l]
            /\ \A i, j \in MatchIdx :
                  (i < j /\ Key(data[i]) = Key(data[j])) =>
                      /\ (\E l \in DOMAIN result.trains : f[l] = j)
                           => (\E k \in DOMAIN result.trains : f[k] = i)
                      /\ \A k, l \in DOMAIN result.trains :
                            (f[k] = i /\ f[l] = j) => k < l

\* A valid call has returned two different records of equal key next to
\* each other, and left out a further match of that key.
C7_Witness ==
    /\ ReturnedOK
    /\ Len(result.trains) = 3
    /\ Key(result.trains[2]) = Key(result.trains[3])
    /\ result.trains[2] # result.trains[3]
    /\ \E i \in MatchIdx :
          /\ Key(data[i]) = Key(result.trains[3])
          /\ Count(result.trains, data[i])
               < Cardinality({ j \in MatchIdx : data[j] = data[i] })

\* C8: when the source cannot be opened, read or deserialized, a valid call
\* returns no error but (nil, nil), the outcome of a load without a
\* matching record, the load having yielded an empty dataset.  The code
\* breaks it: json.Unmarshal stops at the first object that cannot be
\* deserialized, readDataFromJSON drops its error, and the objects before
\* that one are served as the dataset.
C8_LoadFailureGivesNilNil ==
    (Returned /\ ValidArgs /\ LoadFails) =>
        (result = NilTrains /\ err = NoError)

\* C9: in a sequence of calls with the source rewritten in between, no step
\* of a call changes the source; a call that fails a check returns without
\* reading the source and without touching the dataset at hand; a call that
\* passes the checks reads the source once, and the dataset it holds and the
\* pair it returns are those of the source content and the arguments of
\* that call, whatever an earlier call loaded.
C9_EachCallReloads ==
    [][ /\ pc' # "idle" => source' = source
        /\ (pc' = "done" /\ err' # NoError) => (reads' = 0 /\ data' = data)
        /\ (pc' = "done" /\ err' = NoError) =>
              /\ reads' = 1
              /\ data' = readDataFromJSON(source')
              /\ <<result', err'>> =
                    FindTrainsResult(source', departureStation',
                                     arrivalStation', criteria')
      ]_vars

\* A call has passed the checks and is about to read the source while the
\* dataset an earlier call loaded, from other content, is still at hand.
C9_Witness ==
    /\ pc = "load"
    /\ data # <<>>
    /\ source.kind = "ok"
    /\ source.records # <<>>
    /\ data # readDataFromJSON(source)

\* C10: under the departure-time or arrival-time criterion a record whose
\* time text is null, empty or missing holds the zero time, every other
\* loaded record holds a time before it, zero-time records come after all
\* records with a parsed time in the result, one is returned only if fewer
\* than three matches have a parsed time, and the zero-time records returned
\* are the first zero-time matches in source order.
C10_ZeroTimeSortsLast ==
    (ReturnedOK /\ ~result.isNil /\ criteria # "price") =>
        LET IsZero(r) == Key(r) = ZeroTime
            raw(i) == IF criteria = "departure-time"
                      THEN source.records[i].departureTime
                      ELSE source.records[i].arrivalTime
            zeroMatches == { i \in MatchIdx : IsZero(data[i]) }
            zerosReturned == SelectSeq(result.trains, IsZero)
        IN /\ \A i \in 1..(FirstBad - 1) :
                 /\ raw(i) \in NoTimeTexts <=> IsZero(data[i])
                 /\ raw(i) \notin NoTimeTexts => Key(data[i]) < ZeroTime
           /\ \A k, l \in DOMAIN result.trains :
                 (k < l /\ IsZero(result.trains[k])) => IsZero(result.trains[l])
           /\ zerosReturned # <<>>
                 => Cardinality(MatchIdx \ zeroMatches) < 3
           /\ \A k \in DOMAIN zerosReturned :
                 \E i \in zeroMatches :
                     /\ data[i] = zerosReturned[k]
                     /\ Cardinality({ j \in zeroMatches : j < i }) = k - 1

\* Sorted by departure time, a call has returned three records with parsed
\* times and left out the first record of the source, whose departure time
\* is null.
C10_Witness ==
    /\ ReturnedOK
    /\ criteria = "departure-time"
    /\ Len(result.trains) = 3
    /\ 1 \in MatchIdx
    /\ source.records[1].departureTime = NullText
    /\ data[1].DepartureTime = ZeroTime
    /\ \A k \in DOMAIN result.trains :
          result.trains[k].DepartureTime < ZeroTime

=============================================================================
